---- MODULE Spec2Model ----
(***************************************************************************)
(* The demo notebook of ai-concepts-2026 (src/demo.ipynb) and its          *)
(* dependency manifest (src/unnamed/part_000).                             *)
(*                                                                         *)
(* Three scenarios share one state machine, chosen in Init by `mode`:      *)
(*   "notebook" - a kernel running the notebook's code cells, statement by *)
(*                statement, in any order and any number of times;         *)
(*   "api"      - MultiModalEncoder constructed and called by an arbitrary *)
(*                caller with arguments drawn from bounded sets;           *)
(*   "load"     - a JSON reader scanning the bytes of the notebook file.   *)
(*                                                                         *)
(* Tensors are a shape (exact) and a data term (symbolic: the expression   *)
(* over layer applications and weights that produced the values).  Equal   *)
(* terms mean equal values.                                                *)
(***************************************************************************)
EXTENDS Integers, Sequences, FiniteSets, TLC

VARIABLES
    mode,       \* "notebook" | "api" | "load"
    heap,       \* the MultiModalEncoder instances built so far; an id is an index
    frame,      \* the activation of forward, if one is running
    calls,      \* the forward calls that have finished (history)
    installed,  \* packages importable in the kernel's environment
    pipOk,      \* exit of the last `!pip install`: "never" | "ok" | "failed"
    cell,       \* the code cell that runs or ran last, "none" before the first
    pc,         \* index of the next statement of the running cell
    ns,         \* the kernel's global namespace: name -> value
    outputs,    \* per code cell, the lines its last run printed
    status,     \* per code cell: "never" | "running" | "ok" | an exception name
    failedAt,   \* index of the statement of this run that failed, 0 if none
    assigned,   \* names bound by the run in progress (or the last run)
    pos,        \* reader: index of the next character class of the file
    lex,        \* reader: lexer state
    depth       \* reader: nesting depth of open brackets

vars == <<mode, heap, frame, calls, installed, pipOk, cell, pc, ns, outputs,
          status, failedAt, assigned, pos, lex, depth>>

kernelVars == <<installed, pipOk, cell, pc, ns, outputs, status, failedAt, assigned>>
readerVars == <<pos, lex, depth>>

(***************************************************************************)
(* Bounds of the model.                                                    *)
(***************************************************************************)
MaxBatch == 2
MaxInstances == 2
MaxCalls == 3
MaxSeed == 2

(***************************************************************************)
(* Numbers of the source.                                                  *)
(***************************************************************************)
DefaultTextDim == 768
DefaultMetadataDim == 10
DefaultOutputDim == 256
MetadataHidden == 128
BertHiddenSize == 768
DemoRows == 1

(***************************************************************************)
(* Values.                                                                 *)
(***************************************************************************)
Null == [kind |-> "null"]

\* A data term: operation, parameter (a weight id, a mask, a literal's line), operands.
App(op, p, args) == [op |-> op, p |-> p, args |-> args]

Tensor(shape, data) == [kind |-> "tensor", shape |-> shape, data |-> data]

LastDim(x) == x.shape[Len(x.shape)]

(***************************************************************************)
(* torch.nn layers.                                                        *)
(***************************************************************************)
\* Weights of layer k of the instance initialised with random seed s.
WeightId(s, k) == s * 10 + k

Linear(in_features, out_features, w) ==
    [in_features |-> in_features, out_features |-> out_features, w |-> w]

\* nn.Linear raises unless the input's last dimension is in_features.
LinearFits(l, x) == LastDim(x) = l.in_features

LinearApply(l, x) ==
    Tensor(<<x.shape[1], l.out_features>>, App("linear", l.w, <<x.data>>))

ReLU(x) == Tensor(x.shape, App("relu", 0, <<x.data>>))

\* nn.Sequential(Linear, ReLU, Linear)
SequentialFits(seq, x) ==
    /\ LinearFits(seq[1], x)
    /\ LinearFits(seq[2], ReLU(LinearApply(seq[1], x)))

SequentialApply(seq, x) == LinearApply(seq[2], ReLU(LinearApply(seq[1], x)))

\* torch.cat([a, b], dim=1) raises unless the other dimensions agree.
CatFits(a, b) == a.shape[1] = b.shape[1]

Cat(a, b) ==
    Tensor(<<a.shape[1], a.shape[2] + b.shape[2]>>, App("cat", 1, <<a.data, b.data>>))

(***************************************************************************)
(* transformers.BertModel.                                                 *)
(***************************************************************************)
\* Mutant: the encoder is left in training mode, where dropout is active.
BertTrainingMode == [name |-> "bert-base-uncased", training |-> TRUE]

\* from_pretrained returns the pretrained weights with the module in eval mode.
BertFromPretrained == [name |-> "bert-base-uncased", training |-> FALSE]

\* Dropout masks a forward pass of the encoder may draw: none in eval mode.
DropoutMasks(enc) == IF enc.training THEN {1, 2} ELSE {0}

\* Hidden states of all tokens, shape (batch, tokens, hidden); the token
\* dimension is not tracked.
LastHiddenState(enc, text_inputs, mask) ==
    App("bert_encoder", mask, <<text_inputs.data>>)

\* The hidden state at the first token position, [CLS].
ClsHidden(enc, text_inputs, mask) ==
    Tensor(<<text_inputs.batch, BertHiddenSize>>,
           App("select_first_token", 0, <<LastHiddenState(enc, text_inputs, mask)>>))

\* BertPooler: dense + tanh over the [CLS] hidden state.
BertPooler(x) == Tensor(x.shape, App("bert_pooler", 0, <<x.data>>))

BertForward(enc, text_inputs, mask) ==
    [kind |-> "bert_output",
     cls_hidden |-> ClsHidden(enc, text_inputs, mask),
     pooler_output |-> BertPooler(ClsHidden(enc, text_inputs, mask))]

(***************************************************************************)
(* MultiModalEncoder.                                                      *)
(***************************************************************************)
\* Mutant: the last fusion layer is given the width of the concatenation.
MultiModalEncoderWideFusion(text_dim, metadata_dim, output_dim, s) ==
    [kind |-> "MultiModalEncoder",
     text_encoder |-> BertFromPretrained,
     text_projection |-> Linear(text_dim, output_dim, WeightId(s, 1)),
     metadata_encoder |-> <<Linear(metadata_dim, MetadataHidden, WeightId(s, 2)),
                            Linear(MetadataHidden, output_dim, WeightId(s, 3))>>,
     fusion |-> <<Linear(output_dim * 2, output_dim, WeightId(s, 4)),
                  Linear(output_dim, output_dim * 2, WeightId(s, 5))>>]

\* __init__(text_dim, metadata_dim, output_dim); s is the seed of the random
\* initialisation of the nn.Linear layers.
MultiModalEncoder(text_dim, metadata_dim, output_dim, s) ==
    [kind |-> "MultiModalEncoder",
     text_encoder |-> BertFromPretrained,
     text_projection |-> Linear(text_dim, output_dim, WeightId(s, 1)),
     metadata_encoder |-> <<Linear(metadata_dim, MetadataHidden, WeightId(s, 2)),
                            Linear(MetadataHidden, output_dim, WeightId(s, 3))>>,
     fusion |-> <<Linear(output_dim * 2, output_dim, WeightId(s, 4)),
                  Linear(output_dim, output_dim, WeightId(s, 5))>>]

NoFrame == [pc |-> "none"]

\* model(text_inputs, metadata): the activation at entry.  `ret` says where the
\* result goes: the names a cell statement binds, or <<>> for an api caller.
EnterForward(self, text_inputs, metadata, ret) ==
    [pc |-> "text_encoder", self |-> self, ret |-> ret,
     text_inputs |-> text_inputs, metadata |-> metadata,
     args |-> <<text_inputs, metadata>>, params |-> heap[self],
     text_outputs |-> Null, text_features |-> Null, metadata_features |-> Null,
     combined |-> Null, fused_features |-> Null, fusion_input |-> Null,
     trace |-> <<>>, result |-> Null]

\* Mutant: the layer's exception is swallowed and forward returns what it has.
RaiseSwallowed(f, step) == [f EXCEPT !.pc = "return", !.trace = Append(f.trace, step)]

\* A layer raises: the exception leaves forward at once.
Raise(f, step) == [f EXCEPT !.pc = "raised", !.trace = Append(f.trace, step)]

\* text_outputs = self.text_encoder(**text_inputs)
FwdTextEncoder ==
    /\ frame.pc = "text_encoder"
    /\ \E mask \in DropoutMasks(heap[frame.self].text_encoder) :
          frame' = [frame EXCEPT
                      !.text_outputs = BertForward(heap[frame.self].text_encoder,
                                                   frame.text_inputs, mask),
                      !.trace = Append(frame.trace, "text_encoder"),
                      !.pc = "text_projection"]
    /\ UNCHANGED <<mode, heap, calls, kernelVars, readerVars>>

\* Mutant: the raw hidden state of the first token is projected.
ProjectionInputCls(text_outputs) == text_outputs.cls_hidden

\* The encoder output that forward feeds to the projection.
ProjectionInput(text_outputs) == text_outputs.pooler_output

\* text_features = self.text_projection(text_outputs.pooler_output)
FwdTextProjection ==
    /\ frame.pc = "text_projection"
    /\ LET l == heap[frame.self].text_projection
           x == ProjectionInput(frame.text_outputs)
       IN  frame' = IF LinearFits(l, x)
                    THEN [frame EXCEPT
                            !.text_features = LinearApply(l, x),
                            !.trace = Append(frame.trace, "text_projection"),
                            !.pc = "metadata_encoder"]
                    ELSE Raise(frame, "text_projection")
    /\ UNCHANGED <<mode, heap, calls, kernelVars, readerVars>>

\* metadata_features = self.metadata_encoder(metadata)
FwdMetadataEncoder ==
    /\ frame.pc = "metadata_encoder"
    /\ LET seq == heap[frame.self].metadata_encoder
       IN  frame' = IF SequentialFits(seq, frame.metadata)
                    THEN [frame EXCEPT
                            !.metadata_features = SequentialApply(seq, frame.metadata),
                            !.trace = Append(frame.trace, "metadata_encoder"),
                            !.pc = "cat"]
                    ELSE Raise(frame, "metadata_encoder")
    /\ UNCHANGED <<mode, heap, calls, kernelVars, readerVars>>

\* Mutant: the metadata features are concatenated first.
CatOperandsSwapped(f) == <<f.metadata_features, f.text_features>>

\* The operands of the concatenation, in the order forward lists them.
CatOperands(f) == <<f.text_features, f.metadata_features>>

\* combined = torch.cat([text_features, metadata_features], dim=1)
FwdCat ==
    /\ frame.pc = "cat"
    /\ LET ops == CatOperands(frame)
       IN  frame' = IF CatFits(ops[1], ops[2])
                    THEN [frame EXCEPT
                            !.combined = Cat(ops[1], ops[2]),
                            !.trace = Append(frame.trace, "cat"),
                            !.pc = "fusion"]
                    ELSE Raise(frame, "cat")
    /\ UNCHANGED <<mode, heap, calls, kernelVars, readerVars>>

\* fused_features = self.fusion(combined)
FwdFusion ==
    /\ frame.pc = "fusion"
    /\ LET seq == heap[frame.self].fusion
       IN  frame' = IF SequentialFits(seq, frame.combined)
                    THEN [frame EXCEPT
                            !.fused_features = SequentialApply(seq, frame.combined),
                            !.fusion_input = frame.combined,
                            !.trace = Append(frame.trace, "fusion"),
                            !.pc = "return"]
                    ELSE Raise(frame, "fusion")
    /\ UNCHANGED <<mode, heap, calls, kernelVars, readerVars>>

\* The tuple forward returns.
ForwardResult(f) == <<f.fused_features, f.text_features, f.metadata_features>>

\* return fused_features, text_features, metadata_features
FwdReturn ==
    /\ frame.pc = "return"
    /\ frame' = [frame EXCEPT !.result = ForwardResult(frame), !.pc = "returned"]
    /\ UNCHANGED <<mode, heap, calls, kernelVars, readerVars>>

\* The record of a finished call (history).
CallRecord(f) ==
    [self |-> f.self, args |-> f.args, raised |-> f.pc = "raised",
     result |-> f.result, trace |-> f.trace, fusion_input |-> f.fusion_input,
     args_after |-> <<f.text_inputs, f.metadata>>,
     params_before |-> f.params, params_after |-> heap[f.self]]

Forward ==
    \/ FwdTextEncoder
    \/ FwdTextProjection
    \/ FwdMetadataEncoder
    \/ FwdCat
    \/ FwdFusion
    \/ FwdReturn

(***************************************************************************)
(* Scenario "api": one instance, built with any constructor arguments,     *)
(* called with inputs of any shape and content.                            *)
(***************************************************************************)
MaxOutputDim == 2

TextDims == {DefaultTextDim, DefaultTextDim \div 2}
MetadataDims == {DefaultMetadataDim, DefaultMetadataDim + 1}
OutputDims == (1..MaxOutputDim) \cup {DefaultOutputDim}
Batches == 1..MaxBatch

\* Lines of the literals the demo feeds the model; they name a content.
TextLiterals == {121, 181}
MetadataLiterals == {125, 193}

StrValue(line) == [kind |-> "str", data |-> App("literal", line, <<>>)]

\* tokenizer(texts, return_tensors="pt", padding=True, truncation=True)
Tokenize(batch, text) ==
    [kind |-> "encoding", batch |-> batch, data |-> App("tokens", 0, <<text.data>>)]

TensorLiteral(rows, cols, line) == Tensor(<<rows, cols>>, App("literal", line, <<>>))

ApiCall ==
    /\ mode = "api"
    /\ frame.pc = "none"
    /\ Len(calls) < MaxCalls
    /\ \E t \in TextLiterals, m \in MetadataLiterals :
          frame' = EnterForward(1, Tokenize(ns.batch, StrValue(t)),
                                TensorLiteral(ns.rows, ns.cols, m), <<>>)
    /\ UNCHANGED <<mode, heap, calls, kernelVars, readerVars>>

\* The call is over: it returned a tuple or raised.
ApiFinish ==
    /\ mode = "api"
    /\ frame.pc \in {"returned", "raised"}
    /\ calls' = Append(calls, CallRecord(frame))
    /\ frame' = NoFrame
    /\ UNCHANGED <<mode, heap, kernelVars, readerVars>>

(***************************************************************************)
(* Scenario "notebook": the code cells as statement lists.  `line` is the  *)
(* statement's line in src/demo.ipynb; `reads` the global names it reads.  *)
(***************************************************************************)
CodeCells == {"install", "encoder", "adapting", "reasoning"}

SampleCount == 10
LiteralCols == 10

\* print("...") of a constant string.
P(line) == [op |-> "print", line |-> line, reads |-> {}, shows |-> <<>>]

\* print(f"...") showing the value or the shape of global names.
PF(line, shows) ==
    [op |-> "print", line |-> line, shows |-> shows,
     reads |-> {shows[i][1] : i \in 1..Len(shows)}]

Import(line, pkg, binds) ==
    [op |-> "import", line |-> line, reads |-> {}, pkg |-> pkg, binds |-> binds]

Str(line, target) ==
    [op |-> "str", line |-> line, reads |-> {}, target |-> target]

TorchTensor(line, target) ==
    [op |-> "tensor", line |-> line, reads |-> {"torch"}, target |-> target,
     rows |-> DemoRows, cols |-> LiteralCols]

TokenizeStmt(line, target, text) ==
    [op |-> "tokenize", line |-> line, reads |-> {"tokenizer", text},
     target |-> target, text |-> text, batch |-> DemoRows]

\* Mutant: every call passes the first tokenized text.
CallFirstText(line, targets, text_inputs, metadata) ==
    [op |-> "forward", line |-> line,
     reads |-> {"torch", "model", "text_inputs", metadata},
     targets |-> targets, text_inputs |-> "text_inputs", metadata |-> metadata]

\* with torch.no_grad(): a, b, c = model(text_inputs, metadata)
Call(line, targets, text_inputs, metadata) ==
    [op |-> "forward", line |-> line,
     reads |-> {"torch", "model", text_inputs, metadata},
     targets |-> targets, text_inputs |-> text_inputs, metadata |-> metadata]

Norm(line, target, arg) ==
    [op |-> "norm", line |-> line, reads |-> {"torch", arg},
     target |-> target, arg |-> arg]

Cosine(line, target, a, b) ==
    [op |-> "cosine", line |-> line, reads |-> {"torch", a, b},
     target |-> target, a |-> a, b |-> b]

\* Mutant: the install line leaves numpy out.
PipPackagesNoNumpy == {"torch", "transformers", "matplotlib"}

\* !pip install torch transformers numpy matplotlib -q
PipPackages == {"torch", "transformers", "numpy", "matplotlib"}

InstallCell ==
    << [op |-> "shell", line |-> 31, reads |-> {}, packages |-> PipPackages],
       P(32) >>

EncoderCell ==
    << P(50), P(51),
       Import(52, "torch", {"torch"}),
       Import(53, "torch", {"nn"}),
       Import(54, "transformers", {"BertTokenizer", "BertModel"}),
       Import(55, "numpy", {"np"}),
       [op |-> "class", line |-> 57, reads |-> {"nn"}, target |-> "MultiModalEncoder"],
       [op |-> "tokenizer", line |-> 117, reads |-> {"BertTokenizer"},
        target |-> "tokenizer"],
       [op |-> "construct", line |-> 118,
        reads |-> {"MultiModalEncoder", "BertModel", "nn"}, target |-> "model"],
       Str(121, "text"),
       TorchTensor(125, "metadata"),
       P(127), PF(128, << <<"text", "value">> >>),
       PF(129, << <<"metadata", "value">> >>), P(130), P(131),
       TokenizeStmt(134, "text_inputs", "text"),
       PF(135, << <<"tokenizer", "value">>, <<"text_inputs", "value">> >>), P(136),
       Call(140, <<"fused_features", "text_features", "metadata_features">>,
            "text_inputs", "metadata"),
       P(142), PF(143, << <<"text_features", "shape">> >>),
       PF(144, << <<"metadata_features", "shape">> >>),
       PF(145, << <<"fused_features", "shape">> >>), P(146),
       P(148), P(149), P(150), P(151), P(152),
       Norm(155, "text_magnitude", "text_features"),
       Norm(156, "metadata_magnitude", "metadata_features"),
       Norm(157, "fused_magnitude", "fused_features"),
       PF(159, << <<"text_magnitude", "value">> >>),
       PF(160, << <<"metadata_magnitude", "value">> >>),
       PF(161, << <<"fused_magnitude", "value">> >>), P(162),
       P(164),
       [op |-> "slice", line |-> 165, reads |-> {"fused_features"},
        target |-> "sample_values", arg |-> "fused_features", count |-> SampleCount],
       [op |-> "for", line |-> 166, reads |-> {"sample_values"},
        over |-> "sample_values", body |-> 167, binds |-> {"i", "val"}],
       P(169), P(170), P(171), P(172), P(173), P(174), P(175),
       P(178),
       Str(181, "text2"),
       TokenizeStmt(182, "text_inputs2", "text2"),
       Call(185, <<"fused_features2", "_", "_">>, "text_inputs2", "metadata"),
       Cosine(188, "similarity", "fused_features", "fused_features2"),
       PF(189, << <<"similarity", "value">> >>), P(190),
       TorchTensor(193, "metadata2"),
       Call(195, <<"fused_features3", "_", "_">>, "text_inputs", "metadata2"),
       Cosine(197, "similarity2", "fused_features", "fused_features3"),
       PF(198, << <<"similarity2", "value">> >>), P(199) >>

\* Mutant: the placeholder comment replaced by a statement that rebinds a name.
SelfAdaptingCellRebinds == << P(217), P(218), Str(219, "text") >>

\* The third source line of each stub is a comment: no statement.
SelfAdaptingCell == << P(217), P(218) >>

ReasoningCell == << P(237), P(238) >>

Program(c) ==
    CASE c = "install" -> InstallCell
      [] c = "encoder" -> EncoderCell
      [] c = "adapting" -> SelfAdaptingCell
      [] c = "reasoning" -> ReasoningCell
      [] OTHER -> <<>>

\* The names a statement binds.
Binds(s) ==
    CASE s.op \in {"import", "for"} -> s.binds
      [] s.op = "forward" -> {s.targets[i] : i \in 1..Len(s.targets)}
      [] s.op \in {"print", "shell"} -> {}
      [] OTHER -> {s.target}

Statements == UNION {{Program(c)[i] : i \in 1..Len(Program(c))} : c \in CodeCells}

Names == UNION {Binds(s) \cup s.reads : s \in Statements}

(***************************************************************************)
(* The kernel.                                                             *)
(***************************************************************************)
Running ==
    /\ mode = "notebook"
    /\ cell \in CodeCells
    /\ status[cell] = "running"
    /\ frame.pc = "none"

Cur == Program(cell)[pc]

At(op) == Running /\ pc <= Len(Program(cell)) /\ Cur.op = op

Defined(names) == \A n \in names : ns[n] # Null

\* The statement raises: the exception leaves the cell, which stops here.
Abort(exc) ==
    /\ status' = [status EXCEPT ![cell] = exc]
    /\ failedAt' = pc
    /\ UNCHANGED <<cell, pc, ns, outputs, assigned, installed, pipOk, heap, frame, calls>>

\* The statement completes: it bound `b` (name -> value) and printed `out`.
Done(b, out) ==
    /\ pc' = pc + 1
    /\ ns' = [n \in Names |-> IF n \in DOMAIN b THEN b[n] ELSE ns[n]]
    /\ assigned' = assigned \cup DOMAIN b
    /\ outputs' = [outputs EXCEPT ![cell] = @ \o out]
    /\ UNCHANGED <<cell, status, failedAt>>

Step(b, out) == Done(b, out) /\ UNCHANGED <<installed, pipOk, heap, frame, calls>>

NoBinding == [n \in {} |-> Null]

Bind1(name, v) == [n \in {name} |-> v]

\* Selecting a code cell and pressing Shift+Enter.  The cell's output area is
\* cleared; the histories (calls, assigned, failedAt) start over with the run.
StartCell(c) ==
    /\ mode = "notebook"
    /\ cell \in CodeCells => status[cell] # "running"
    /\ c = "encoder" => Len(heap) < MaxInstances
    /\ cell' = c
    /\ pc' = 1
    /\ status' = [status EXCEPT ![c] = "running"]
    /\ outputs' = [outputs EXCEPT ![c] = <<>>]
    /\ failedAt' = 0
    /\ assigned' = {}
    /\ calls' = <<>>
    /\ UNCHANGED <<mode, heap, frame, installed, pipOk, ns, readerVars>>

\* The last statement of the cell has completed.
FinishCell ==
    /\ Running
    /\ pc = Len(Program(cell)) + 1
    /\ status' = [status EXCEPT ![cell] = "ok"]
    /\ UNCHANGED <<mode, heap, frame, calls, installed, pipOk, cell, pc, ns, outputs,
                   failedAt, assigned, readerVars>>

\* `!cmd` runs a shell command; a nonzero exit raises nothing in the kernel.
StepShell ==
    /\ At("shell")
    /\ \E ok \in BOOLEAN :
          /\ installed' = IF ok THEN installed \cup Cur.packages ELSE installed
          /\ pipOk' = IF ok THEN "ok" ELSE "failed"
          /\ failedAt' = IF ok THEN failedAt ELSE pc
    /\ pc' = pc + 1
    /\ UNCHANGED <<mode, heap, frame, calls, cell, ns, outputs, status, assigned,
                   readerVars>>

\* What a print shows of a name.
Shown(show) == IF show[2] = "shape" THEN ns[show[1]].shape ELSE ns[show[1]]

PrintedLine(s) ==
    [line |-> s.line, shows |-> [i \in 1..Len(s.shows) |-> Shown(s.shows[i])]]

StepPrint ==
    /\ At("print")
    /\ IF Defined(Cur.reads)
       THEN Step(NoBinding, <<PrintedLine(Cur)>>)
       ELSE Abort("NameError")
    /\ UNCHANGED <<mode, readerVars>>

StepImport ==
    /\ At("import")
    /\ IF Cur.pkg \in installed
       THEN Step([n \in Cur.binds |-> [kind |-> "imported", pkg |-> Cur.pkg, name |-> n]],
                 <<>>)
       ELSE Abort("ModuleNotFoundError")
    /\ UNCHANGED <<mode, readerVars>>

StepClass ==
    /\ At("class")
    /\ IF Defined(Cur.reads)
       THEN Step(Bind1(Cur.target, [kind |-> "class", name |-> Cur.target]), <<>>)
       ELSE Abort("NameError")
    /\ UNCHANGED <<mode, readerVars>>

\* tokenizer = BertTokenizer.from_pretrained('bert-base-uncased'): fetching the
\* files may fail.
StepTokenizer ==
    /\ At("tokenizer")
    /\ IF Defined(Cur.reads)
       THEN \E fetched \in BOOLEAN :
               IF fetched
               THEN Step(Bind1(Cur.target,
                               [kind |-> "tokenizer", name |-> "bert-base-uncased"]),
                         <<>>)
               ELSE Abort("OSError")
       ELSE Abort("NameError")
    /\ UNCHANGED <<mode, readerVars>>

\* model = MultiModalEncoder(): __init__ with its defaults; BertModel.from_pretrained
\* may fail; the Linear layers are initialised at random.
StepConstruct ==
    /\ At("construct")
    /\ IF Defined(Cur.reads)
       THEN \E fetched \in BOOLEAN, s \in 1..MaxSeed :
               IF fetched
               THEN /\ heap' = Append(heap,
                                      MultiModalEncoder(DefaultTextDim, DefaultMetadataDim,
                                                        DefaultOutputDim, s))
                    /\ Done(Bind1(Cur.target, [kind |-> "ref", id |-> Len(heap) + 1]), <<>>)
                    /\ UNCHANGED <<installed, pipOk, frame, calls>>
               ELSE Abort("OSError")
       ELSE Abort("NameError")
    /\ UNCHANGED <<mode, readerVars>>

StepStr ==
    /\ At("str")
    /\ Step(Bind1(Cur.target, StrValue(Cur.line)), <<>>)
    /\ UNCHANGED <<mode, readerVars>>

StepTensor ==
    /\ At("tensor")
    /\ IF Defined(Cur.reads)
       THEN Step(Bind1(Cur.target, TensorLiteral(Cur.rows, Cur.cols, Cur.line)), <<>>)
       ELSE Abort("NameError")
    /\ UNCHANGED <<mode, readerVars>>

StepTokenize ==
    /\ At("tokenize")
    /\ IF Defined(Cur.reads)
       THEN Step(Bind1(Cur.target, Tokenize(Cur.batch, ns[Cur.text])), <<>>)
       ELSE Abort("NameError")
    /\ UNCHANGED <<mode, readerVars>>

\* The call of model(...): control enters forward.
StepCall ==
    /\ At("forward")
    /\ IF Defined(Cur.reads)
       THEN /\ frame' = EnterForward(ns["model"].id, ns[Cur.text_inputs],
                                     ns[Cur.metadata], Cur.targets)
            /\ UNCHANGED <<kernelVars, heap, calls>>
       ELSE Abort("NameError")
    /\ UNCHANGED <<mode, readerVars>>

\* a, b, c = <tuple>: the names are bound left to right.
Unpack(targets, values) ==
    [n \in {targets[i] : i \in 1..Len(targets)} |->
        values[CHOOSE i \in 1..Len(targets) :
                  /\ targets[i] = n
                  /\ \A j \in 1..Len(targets) : targets[j] = n => j <= i]]

\* forward is over: its tuple is unpacked into the targets, or its exception
\* leaves the cell.
StepCallDone ==
    /\ mode = "notebook"
    /\ frame.pc \in {"returned", "raised"}
    /\ calls' = Append(calls, CallRecord(frame))
    /\ frame' = NoFrame
    /\ IF frame.pc = "returned"
       THEN /\ Done(Unpack(frame.ret, frame.result), <<>>)
            /\ UNCHANGED <<installed, pipOk, heap>>
       ELSE /\ status' = [status EXCEPT ![cell] = "RuntimeError"]
            /\ failedAt' = pc
            /\ UNCHANGED <<cell, pc, ns, outputs, assigned, installed, pipOk, heap>>
    /\ UNCHANGED <<mode, readerVars>>

\* x = torch.norm(t).item()
StepNorm ==
    /\ At("norm")
    /\ IF Defined(Cur.reads)
       THEN Step(Bind1(Cur.target,
                       [kind |-> "float", data |-> App("norm", 0, <<ns[Cur.arg].data>>)]),
                 <<>>)
       ELSE Abort("NameError")
    /\ UNCHANGED <<mode, readerVars>>

Min(a, b) == IF a < b THEN a ELSE b

\* sample_values = fused_features[0][:10].detach().numpy()
StepSlice ==
    /\ At("slice")
    /\ IF Defined(Cur.reads)
       THEN Step(Bind1(Cur.target,
                       [kind |-> "array",
                        len |-> Min(Cur.count, ns[Cur.arg].shape[2]),
                        data |-> App("slice", Cur.count, <<ns[Cur.arg].data>>)]),
                 <<>>)
       ELSE Abort("NameError")
    /\ UNCHANGED <<mode, readerVars>>

\* for i, val in enumerate(sample_values): print(...)
StepFor ==
    /\ At("for")
    /\ IF Defined(Cur.reads)
       THEN LET n == ns[Cur.over].len
                elem(k) == [kind |-> "float",
                            data |-> App("element", k, <<ns[Cur.over].data>>)]
            IN  Step(IF n = 0 THEN NoBinding
                     ELSE [x \in Cur.binds |->
                             IF x = "i" THEN [kind |-> "int", value |-> n - 1]
                             ELSE elem(n)],
                     [k \in 1..n |-> [line |-> Cur.body, shows |-> <<k, elem(k)>>]])
       ELSE Abort("NameError")
    /\ UNCHANGED <<mode, readerVars>>

\* torch.cosine_similarity(a, b, dim=1)
StepCosine ==
    /\ At("cosine")
    /\ IF Defined(Cur.reads)
       THEN IF ns[Cur.a].shape = ns[Cur.b].shape
            THEN Step(Bind1(Cur.target,
                            Tensor(<<ns[Cur.a].shape[1]>>,
                                   App("cosine_similarity", 1,
                                       <<ns[Cur.a].data, ns[Cur.b].data>>))),
                      <<>>)
            ELSE Abort("RuntimeError")
       ELSE Abort("NameError")
    /\ UNCHANGED <<mode, readerVars>>

Kernel ==
    \/ \E c \in CodeCells : StartCell(c)
    \/ FinishCell
    \/ StepShell
    \/ StepPrint
    \/ StepImport
    \/ StepClass
    \/ StepTokenizer
    \/ StepConstruct
    \/ StepStr
    \/ StepTensor
    \/ StepTokenize
    \/ StepCall
    \/ StepCallDone
    \/ StepNorm
    \/ StepSlice
    \/ StepFor
    \/ StepCosine

(***************************************************************************)
(* The dependency manifest: its requirement lines (comment lines and       *)
(* commented-out requirements are not requirements).                       *)
(***************************************************************************)
Requirement(line, name, op, version) ==
    [line |-> line, name |-> name, op |-> op, version |-> version]

Manifest ==
    { Requirement(2, "torch", ">=", <<1, 9, 0>>),
      Requirement(3, "transformers", ">=", <<4, 20, 0>>),
      Requirement(4, "numpy", ">=", <<1, 21, 0>>),
      Requirement(5, "scipy", ">=", <<1, 7, 0>>),
      Requirement(8, "matplotlib", ">=", <<3, 5, 0>>),
      Requirement(9, "seaborn", ">=", <<0, 11, 0>>),
      Requirement(12, "sympy", ">=", <<1, 9, 0>>),
      Requirement(13, "pandas", ">=", <<1, 3, 0>>),
      Requirement(16, "psutil", ">=", <<5, 8, 0>>),
      Requirement(19, "tokenizers", ">=", <<0, 13, 0>>),
      Requirement(26, "jupyter", ">=", <<1, 0, 0>>),
      Requirement(27, "ipython", ">=", <<7, 25, 0>>) }

(***************************************************************************)
(* Scenario "load": a JSON reader over the notebook file.                  *)
(*                                                                         *)
(* NotebookFile is src/demo.ipynb character by character, one row per      *)
(* source line, each character replaced by its class:                      *)
(*   "q" a double quote; "e" a backslash and the character after it, when  *)
(*   that is one of " \ / b f n r t u; "x" a backslash and any other       *)
(*   character; "n" a line feed; "w" a run of blanks; the structural       *)
(*   characters { } [ ] : , as themselves; "c" a run of other characters.  *)
(***************************************************************************)
NotebookFile ==
       <<"{", "n">> \o
       <<"w", "q", "c", "q", ":", "w", "[", "n">> \o
       <<"w", "{", "n">> \o
       <<"w", "q", "c", "q", ":", "w", "q", "c", "q", ",", "n">> \o
       <<"w", "q", "c", "q", ":", "w", "{", "}", ",", "n">> \o
       <<"w", "q", "c", "q", ":", "w", "[", "n">> \o
       <<"w", "q", "c", "w", "c", "w", "c", "w", "c", "w", "c", "w", "c", "w", "c", "e", "q", ",", "n">> \o
       <<"w", "q", "e", "q", ",", "n">> \o
       <<"w", "q", "c", "w", "c", "w", "c", "w", "c", "w", "c", "w", "c", "w", "c", "w", "c", "e", "q", ",", "n">> \o
       <<"w", "q", "e", "q", ",", "n">> \o
       <<"w", "q", "c", ":", "c", "e", "q", ",", "n">> \o
       <<"w", "q", "c", "w", "c", "w", "c", "w", "c", "w", "c", "w", "c", "w", "c", "w", "c", "w", "c", "w", "c", "w", "c", "e", "q", ",", "n">> \o
       <<"w", "q", "c", "w", "c", "w", "c", "w", "c", "w", "c", "w", "c", "w", "c", "w", "c", "e", "q", "n">> \o
       <<"w", "]", "n">> \o
       <<"w", "}", ",", "n">> \o
       <<"w", "{", "n">> \o
       <<"w", "q", "c", "q", ":", "w", "q", "c", "q", ",", "n">> \o
       <<"w", "q", "c", "q", ":", "w", "{", "}", ",", "n">> \o
       <<"w", "q", "c", "q", ":", "w", "[", "n">> \o
       <<"w", "q", "c", "w", "c", "w", "c", "e", "q", ",", "n">> \o
       <<"w", "q", "e", "q", ",", "n">> \o
       <<"w", "q", "c", "w", "c", "w", "c", "w", "c", ":", "q", "n">> \o
       <<"w", "]", "n">> \o
       <<"w", "}", ",", "n">> \o
       <<"w", "{", "n">> \o
       <<"w", "q", "c", "q", ":", "w", "q", "c", "q", ",", "n">> \o
       <<"w", "q", "c", "q", ":", "w", "c", ",", "n">> \o
       <<"w", "q", "c", "q", ":", "w", "{", "}", ",", "n">> \o
       <<"w", "q", "c", "q", ":", "w", "[", "]", ",", "n">> \o
       <<"w", "q", "c", "q", ":", "w", "[", "n">> \o
       <<"w", "q", "c", "w", "c", "w", "c", "w", "c", "w", "c", "w", "c", "w", "c", "e", "q", ",", "n">> \o
       <<"w", "q", "c", "e", "c", "w", "c", "e", "c", "q", "n">> \o
       <<"w", "]", "n">> \o
       <<"w", "}", ",", "n">> \o
       <<"w", "{", "n">> \o
       <<"w", "q", "c", "q", ":", "w", "q", "c", "q", ",", "n">> \o
       <<"w", "q", "c", "q", ":", "w", "{", "}", ",", "n">> \o
       <<"w", "q", "c", "q", ":", "w", "[", "n">> \o
       <<"w", "q", "c", "w", "c", "w", "c", "w", "c", ":", "w", "c", "w", "c", "w", "c", "e", "q", ",", "n">> \o
       <<"w", "q", "e", "q", ",", "n">> \o
       <<"w", "q", "c", "w", "c", "w", "c", "w", "c", "w", "c", "w", "c", "w", "c", "w", "c", "w", "c", "q", "n">> \o
       <<"w", "]", "n">> \o
       <<"w", "}", ",", "n">> \o
       <<"w", "{", "n">> \o
       <<"w", "q", "c", "q", ":", "w", "q", "c", "q", ",", "n">> \o
       <<"w", "q", "c", "q", ":", "w", "c", ",", "n">> \o
       <<"w", "q", "c", "q", ":", "w", "{", "}", ",", "n">> \o
       <<"w", "q", "c", "q", ":", "w", "[", "]", ",", "n">> \o
       <<"w", "q", "c", "q", ":", "w", "[", "n">> \o
       <<"w", "q", "c", "e", "c", "w", "c", "w", "c", "e", "c", "e", "q", ",", "n">> \o
       <<"w", "q", "c", "e", "c", "w", "c", "w", "c", "w", "c", "w", "c", "w", "c", "e", "c", "e", "q", ",", "n">> \o
       <<"w", "q", "c", "w", "c", "n">> \o
       <<"c", "w", "c", "w", "c", "w", "c", "n">> \o
       <<"c", "w", "c", "w", "c", "w", "c", ",", "w", "c", "n">> \o
       <<"c", "w", "c", "w", "c", "w", "c", "n">> \o
       <<"n">> \o
       <<"c", "w", "c", ":", "n">> \o
       <<"w", "q", "q", "q", "n">> \o
       <<"w", "c", "w", "c", "w", "c", "w", "c", "w", "c", "w", "c", "w", "c", "w", "c", "w", "c", "w", "c", "w", "c", "n">> \o
       <<"n">> \o
       <<"w", "c", ":", "n">> \o
       <<"w", "c", "w", "c", "w", "c", ":", "w", "c", "w", "c", "w", "c", "w", "c", "w", "c", "w", "c", "n">> \o
       <<"w", "c", "w", "c", "w", "c", ":", "w", "c", "w", "c", "w", "c", "w", "c", "w", "c", "w", "c", "n">> \o
       <<"w", "c", "w", "c", "w", "c", ":", "w", "c", "w", "c", "w", "c", "w", "c", "w", "c", "w", "c", "n">> \o
       <<"w", "q", "q", "q", "n">> \o
       <<"n">> \o
       <<"w", "c", "w", "c", ",", "w", "c", ",", "w", "c", ",", "w", "c", ":", "n">> \o
       <<"w", "c", "n">> \o
       <<"n">> \o
       <<"w", "c", "w", "c", "w", "c", ":", "w", "c", "w", "c", "w", "c", "w", "c", "w", "c", "w", "c", "w", "c", "w", "c", "n">> \o
       <<"w", "c", "w", "c", "w", "c", "n">> \o
       <<"w", "c", "w", "c", "w", "c", "w", "c", "w", "c", "w", "c", "w", "c", "w", "c", "w", "c", "w", "c", "w", "c", "n">> \o
       <<"w", "c", "w", "c", "w", "c", ",", "w", "c", "n">> \o
       <<"n">> \o
       <<"w", "c", "w", "c", "w", "c", ":", "w", "c", "w", "c", "w", "c", "w", "c", "w", "c", "w", "c", ",", "w", "c", ",", "w", "c", "n">> \o
       <<"w", "c", "w", "c", "w", "c", "n">> \o
       <<"w", "c", ",", "w", "c", ",", "w", "c", "w", "c", "w", "c", ":", "w", "c", "w", "c", "w", "c", "w", "c", "n">> \o
       <<"w", "c", ",", "w", "c", "w", "c", "w", "c", "n">> \o
       <<"w", "c", ",", "w", "c", "w", "c", "w", "c", "w", "c", ":", "w", "c", "w", "c", "w", "c", "w", "c", "n">> \o
       <<"w", "c", "n">> \o
       <<"n">> \o
       <<"w", "c", "w", "c", "w", "c", ":", "w", "c", "w", "c", "w", "c", "w", "c", "w", "c", "w", "c", "n">> \o
       <<"w", "c", "w", "c", "w", "c", "n">> \o
       <<"w", "c", "w", "c", "w", "c", ",", "w", "c", ",", "w", "c", "w", "c", ":", "w", "c", "w", "c", "n">> \o
       <<"w", "c", ",", "n">> \o
       <<"w", "c", ",", "w", "c", "w", "c", "w", "c", ":", "w", "c", "w", "c", "n">> \o
       <<"w", "c", "n">> \o
       <<"n">> \o
       <<"w", "c", "w", "c", ",", "w", "c", ",", "w", "c", ":", "n">> \o
       <<"w", "q", "q", "q", "n">> \o
       <<"w", "c", "w", "c", "w", "c", "w", "c", "w", "c", "n">> \o
       <<"n">> \o
       <<"w", "c", ":", "n">> \o
       <<"w", "c", ":", "w", "c", "w", "c", "w", "c", "w", "c", "w", "c", "n">> \o
       <<"w", "c", ":", "w", "c", "w", "c", "w", "c", ",", "w", "c", ",", "w", "c", "n">> \o
       <<"n">> \o
       <<"w", "c", ":", "n">> \o
       <<"w", "c", "w", "c", "w", "c", "w", "c", "w", "c", "w", "c", "w", "c", "w", "c", "w", "c", "w", "c", "n">> \o
       <<"w", "q", "q", "q", "n">> \o
       <<"w", "c", "w", "c", "w", "c", ":", "w", "c", "w", "c", "w", "c", "w", "c", "n">> \o
       <<"w", "c", "w", "c", "w", "c", "n">> \o
       <<"w", "c", "w", "c", "w", "c", "w", "[", "c", "]", "w", "c", "w", "c", "w", "c", "w", "c", "w", "c", "w", "c", "n">> \o
       <<"w", "c", "w", "c", "w", "c", "n">> \o
       <<"n">> \o
       <<"w", "c", "w", "c", "w", "c", ":", "w", "c", "w", "c", "w", "c", "n">> \o
       <<"w", "c", "w", "c", "w", "c", "n">> \o
       <<"n">> \o
       <<"w", "c", "w", "c", "w", "c", ":", "w", "c", "w", "c", "w", "c", "w", "c", "n">> \o
       <<"w", "c", "w", "c", "w", "c", "[", "c", ",", "w", "c", "]", ",", "w", "c", "n">> \o
       <<"n">> \o
       <<"w", "c", "w", "c", "w", "c", ":", "w", "c", "w", "c", "w", "c", "w", "c", "w", "c", "n">> \o
       <<"w", "c", "w", "c", "w", "c", "n">> \o
       <<"n">> \o
       <<"w", "c", "w", "c", ",", "w", "c", ",", "w", "c", "n">> \o
       <<"n">> \o
       <<"c", "w", "c", "w", "c", "w", "c", "w", "c", "w", "c", "n">> \o
       <<"c", "w", "c", "w", "c", "n">> \o
       <<"c", "w", "c", "w", "c", "n">> \o
       <<"n">> \o
       <<"c", "w", "c", ":", "w", "c", "w", "c", "w", "c", "w", "c", "w", "c", "w", "c", "w", "c", "n">> \o
       <<"c", "w", "c", "w", "q", "c", "w", "c", "w", "c", "w", "c", "w", "c", "w", "c", "w", "c", "q", "n">> \o
       <<"n">> \o
       <<"c", "w", "c", "w", "c", "w", "c", "w", "c", "w", "c", ":", "n">> \o
       <<"c", "w", "[", "c", ",", "w", "c", ",", "w", "c", ",", "w", "c", ",", "w", "c", ",", "w", "c", ",", "w", "c", ",", "w", "c", ",", "w", "c", ",", "w", "c", "]", "n">> \o
       <<"c", "w", "c", "w", "c", "[", "[", "c", ",", "w", "c", ",", "w", "c", ",", "w", "c", ",", "w", "c", ",", "w", "c", ",", "w", "c", ",", "w", "c", ",", "w", "c", ",", "w", "c", "]", "]", "c", "n">> \o
       <<"n">> \o
       <<"c", "q", "c", "w", "c", "w", "c", "w", "c", "w", "c", "q", "c", "n">> \o
       <<"c", "q", "c", "w", "c", ":", "w", "c", "{", "c", "}", "c", "q", "c", "n">> \o
       <<"c", "q", "c", "w", "c", ":", "w", "{", "c", "}", "q", "c", "n">> \o
       <<"c", "q", "c", "w", "c", ":", "w", "[", "c", ",", "w", "c", ",", "w", "c", ",", "w", "c", ",", "w", "c", ",", "w", "c", ",", "w", "c", ",", "w", "c", ",", "w", "c", ",", "w", "c", "]", "q", "c", "n">> \o
       <<"c", "n">> \o
       <<"n">> \o
       <<"c", "w", "c", "w", "c", "w", "c", "n">> \o
       <<"c", "w", "c", "w", "c", ",", "w", "c", "q", "c", "q", ",", "w", "c", ",", "w", "c", "n">> \o
       <<"c", "q", "c", "w", "c", ":", "w", "{", "c", "[", "c", "]", "[", "c", "]", "c", "}", "q", "c", "n">> \o
       <<"c", "n">> \o
       <<"n">> \o
       <<"c", "w", "c", "w", "c", "w", "c", "w", "c", "n">> \o
       <<"c", "w", "c", ":", "w", "c", "w", "c", "w", "c", "w", "c", "w", "c", "w", "c", "w", "c", "n">> \o
       <<"w", "c", ",", "w", "c", ",", "w", "c", "w", "c", "w", "c", ",", "w", "c", "n">> \o
       <<"n">> \o
       <<"c", "q", "c", "w", "c", "w", "c", "w", "c", "q", "c", "n">> \o
       <<"c", "q", "c", "w", "c", "w", "c", ":", "w", "{", "c", "}", "w", "c", "w", "c", "w", "c", "q", "c", "n">> \o
       <<"c", "q", "c", "w", "c", "w", "c", ":", "w", "{", "c", "}", "w", "c", "w", "c", "w", "c", "q", "c", "n">> \o
       <<"c", "q", "c", "w", "c", "w", "c", ":", "w", "{", "c", "}", "w", "c", "w", "c", "w", "c", "q", "c", "n">> \o
       <<"c", "n">> \o
       <<"n">> \o
       <<"c", "q", "c", "w", "c", "w", "c", "w", "c", "w", "c", "w", "c", "q", "c", "n">> \o
       <<"c", "q", "c", "w", "c", "w", "c", "w", "c", "w", "c", "w", "c", "w", "c", "w", "c", "w", "c", "w", "c", ":", "q", "c", "n">> \o
       <<"c", "q", "c", "w", "c", "w", "c", "w", "c", "w", "c", "w", "c", "w", "c", "w", "c", "w", "c", ",", "w", "c", "q", "c", "n">> \o
       <<"c", "q", "c", "w", "c", "w", "c", "w", "c", "w", "c", "w", "c", "w", "c", "q", "c", "n">> \o
       <<"c", "n">> \o
       <<"n">> \o
       <<"c", "w", "c", "w", "c", "w", "c", "w", "c", "w", "c", "w", "c", "w", "c", "n">> \o
       <<"c", "w", "c", "w", "c", "n">> \o
       <<"c", "w", "c", "w", "c", "n">> \o
       <<"c", "w", "c", "w", "c", "n">> \o
       <<"n">> \o
       <<"c", "q", "c", "w", "c", "w", "c", ":", "w", "{", "c", ":", "c", "}", "q", "c", "n">> \o
       <<"c", "q", "c", "w", "c", "w", "c", ":", "w", "{", "c", ":", "c", "}", "q", "c", "n">> \o
       <<"c", "q", "c", "w", "c", "w", "c", ":", "w", "{", "c", ":", "c", "}", "q", "c", "n">> \o
       <<"c", "n">> \o
       <<"n">> \o
       <<"c", "q", "c", "w", "c", "w", "c", "w", "c", ":", "q", "c", "n">> \o
       <<"c", "w", "c", "w", "c", "[", "c", "]", "[", ":", "c", "]", "c", "n">> \o
       <<"c", "w", "c", ",", "w", "c", "w", "c", "w", "c", ":", "n">> \o
       <<"w", "c", "q", "w", "c", "w", "{", "c", "}", ":", "w", "{", "c", ":", "c", "}", "q", "c", "n">> \o
       <<"n">> \o
       <<"c", "n">> \o
       <<"c", "q", "c", "w", "c", "w", "c", "w", "c", "q", "c", "n">> \o
       <<"c", "q", "c", "w", "c", "w", "c", "w", "c", "w", "c", "w", "c", "w", "c", "w", "c", ":", "q", "c", "n">> \o
       <<"c", "q", "c", "w", "c", "w", "c", "w", "c", "w", "c", "w", "c", "w", "c", "w", "c", "w", "c", "q", "c", "n">> \o
       <<"c", "q", "c", "w", "c", "w", "c", "w", "c", "w", "c", "w", "c", "w", "c", "w", "c", "q", "c", "n">> \o
       <<"c", "q", "c", "w", "c", "w", "c", "w", "c", "w", "c", "w", "c", "w", "c", "q", "c", "n">> \o
       <<"c", "q", "c", "w", "c", "w", "c", "w", "c", "w", "c", "w", "c", "w", "c", "w", "c", "w", "c", "q", "c", "n">> \o
       <<"n">> \o
       <<"c", "w", "c", "w", "c", "w", "c", "w", "c", "w", "c", "n">> \o
       <<"c", "q", "e", "c", "w", "c", "w", "c", "w", "c", "w", "c", "q", "c", "n">> \o
       <<"n">> \o
       <<"c", "w", "c", "w", "c", "w", "c", "w", "c", "w", "c", "w", "c", "w", "c", "n">> \o
       <<"c", "w", "c", "w", "q", "c", "w", "c", "w", "c", "w", "c", "w", "c", "w", "c", "w", "c", "w", "c", "q", "n">> \o
       <<"c", "w", "c", "w", "c", ",", "w", "c", "q", "c", "q", ",", "w", "c", ",", "w", "c", "n">> \o
       <<"n">> \o
       <<"c", "w", "c", ":", "n">> \o
       <<"w", "c", ",", "w", "c", ",", "w", "c", "w", "c", "w", "c", ",", "w", "c", "n">> \o
       <<"n">> \o
       <<"c", "w", "c", "w", "c", "w", "c", "w", "c", "w", "c", "w", "c", "w", "c", "n">> \o
       <<"c", "w", "c", "w", "c", ",", "w", "c", ",", "w", "c", "n">> \o
       <<"c", "q", "c", "w", "c", "w", "c", "w", "c", "w", "c", "w", "c", "w", "c", "w", "c", ":", "w", "{", "c", ":", "c", "}", "q", "c", "n">> \o
       <<"c", "q", "c", "w", "c", "w", "c", ",", "w", "c", "w", "c", "w", "c", ",", "w", "c", "w", "c", "w", "c", "q", "c", "n">> \o
       <<"n">> \o
       <<"c", "w", "c", "w", "c", "w", "c", "w", "c", "w", "c", "w", "c", "w", "c", "w", "c", "w", "c", "w", "c", "n">> \o
       <<"c", "w", "c", "w", "c", "[", "[", "c", ",", "w", "c", ",", "w", "c", ",", "w", "c", ",", "w", "c", ",", "w", "c", ",", "w", "c", ",", "w", "c", ",", "w", "c", ",", "w", "c", "]", "]", "c", "w", "c", "w", "c", "w", "c", "w", "c", "n">> \o
       <<"c", "w", "c", ":", "n">> \o
       <<"w", "c", ",", "w", "c", ",", "w", "c", "w", "c", "w", "c", ",", "w", "c", "n">> \o
       <<"n">> \o
       <<"c", "w", "c", "w", "c", ",", "w", "c", ",", "w", "c", "n">> \o
       <<"c", "q", "c", "w", "c", "w", "c", "w", "c", "w", "c", "w", "c", "w", "c", "w", "c", ":", "w", "{", "c", ":", "c", "}", "q", "c", "n">> \o
       <<"c", "q", "c", "w", "c", "w", "c", "w", "c", "w", "c", "w", "c", "w", "c", "w", "c", "w", "c", "w", "c", "w", "c", "w", "c", "w", "c", "q", "c", "q", "n">> \o
       <<"w", "]", "n">> \o
       <<"w", "}", ",", "n">> \o
       <<"w", "{", "n">> \o
       <<"w", "q", "c", "q", ":", "w", "q", "c", "q", ",", "n">> \o
       <<"w", "q", "c", "q", ":", "w", "{", "}", ",", "n">> \o
       <<"w", "q", "c", "q", ":", "w", "[", "n">> \o
       <<"w", "q", "c", "w", "c", "w", "c", "w", "c", ":", "w", "c", "w", "c", "e", "q", ",", "n">> \o
       <<"w", "q", "e", "q", ",", "n">> \o
       <<"w", "q", "c", "w", "c", "w", "c", "w", "c", "w", "c", "w", "c", "w", "c", "w", "c", "w", "c", "q", "n">> \o
       <<"w", "]", "n">> \o
       <<"w", "}", ",", "n">> \o
       <<"w", "{", "n">> \o
       <<"w", "q", "c", "q", ":", "w", "q", "c", "q", ",", "n">> \o
       <<"w", "q", "c", "q", ":", "w", "c", ",", "n">> \o
       <<"w", "q", "c", "q", ":", "w", "{", "}", ",", "n">> \o
       <<"w", "q", "c", "q", ":", "w", "[", "]", ",", "n">> \o
       <<"w", "q", "c", "q", ":", "w", "[", "n">> \o
       <<"w", "q", "c", "e", "c", "w", "c", "w", "c", "e", "c", "e", "q", ",", "n">> \o
       <<"w", "q", "c", "e", "c", "w", "c", "w", "c", "w", "c", "w", "c", "w", "c", "w", "c", "e", "c", "e", "q", ",", "n">> \o
       <<"w", "q", "c", "w", "c", "w", "c", "w", "c", "w", "c", "w", "c", "w", "c", "w", "c", "q", "n">> \o
       <<"w", "]", "n">> \o
       <<"w", "}", ",", "n">> \o
       <<"w", "{", "n">> \o
       <<"w", "q", "c", "q", ":", "w", "q", "c", "q", ",", "n">> \o
       <<"w", "q", "c", "q", ":", "w", "{", "}", ",", "n">> \o
       <<"w", "q", "c", "q", ":", "w", "[", "n">> \o
       <<"w", "q", "c", "w", "c", "w", "c", "w", "c", ":", "w", "c", "w", "c", "w", "c", "e", "q", ",", "n">> \o
       <<"w", "q", "e", "q", ",", "n">> \o
       <<"w", "q", "c", "w", "c", "w", "c", "w", "c", "w", "c", "w", "c", "w", "c", "w", "c", "w", "c", "w", "c", "w", "c", "q", "n">> \o
       <<"w", "]", "n">> \o
       <<"w", "}", ",", "n">> \o
       <<"w", "{", "n">> \o
       <<"w", "q", "c", "q", ":", "w", "q", "c", "q", ",", "n">> \o
       <<"w", "q", "c", "q", ":", "w", "c", ",", "n">> \o
       <<"w", "q", "c", "q", ":", "w", "{", "}", ",", "n">> \o
       <<"w", "q", "c", "q", ":", "w", "[", "]", ",", "n">> \o
       <<"w", "q", "c", "q", ":", "w", "[", "n">> \o
       <<"w", "q", "c", "e", "c", "w", "c", "w", "c", "e", "c", "e", "q", ",", "n">> \o
       <<"w", "q", "c", "e", "c", "w", "c", "w", "c", "w", "c", "w", "c", "w", "c", "e", "c", "e", "q", ",", "n">> \o
       <<"w", "q", "c", "w", "c", "w", "c", "w", "c", "w", "c", "w", "c", "w", "c", "w", "c", "q", "n">> \o
       <<"w", "]", "n">> \o
       <<"w", "}", ",", "n">> \o
       <<"w", "{", "n">> \o
       <<"w", "q", "c", "q", ":", "w", "q", "c", "q", ",", "n">> \o
       <<"w", "q", "c", "q", ":", "w", "{", "}", ",", "n">> \o
       <<"w", "q", "c", "q", ":", "w", "[", "n">> \o
       <<"w", "q", "c", "w", "c", "e", "q", ",", "n">> \o
       <<"w", "q", "e", "q", ",", "n">> \o
       <<"w", "q", "c", "w", "c", "w", "c", "w", "c", "w", "c", "w", "c", "e", "q", ",", "n">> \o
       <<"w", "q", "e", "q", ",", "n">> \o
       <<"w", "q", "c", "w", "c", "w", "c", "e", "q", ",", "n">> \o
       <<"w", "q", "c", "w", "c", "w", "c", "w", "e", "q", ",", "n">> \o
       <<"w", "q", "c", "w", "c", "w", "c", "e", "q", ",", "n">> \o
       <<"w", "q", "e", "q", ",", "n">> \o
       <<"w", "q", "c", "w", "c", "w", "c", "w", "c", "w", "c", "w", "c", "w", "c", "w", "c", "q", "n">> \o
       <<"w", "]", "n">> \o
       <<"w", "}", "n">> \o
       <<"w", "]", ",", "n">> \o
       <<"w", "q", "c", "q", ":", "w", "{", "n">> \o
       <<"w", "q", "c", "q", ":", "w", "{", "n">> \o
       <<"w", "q", "c", "q", ":", "w", "q", "c", "w", "c", "q", ",", "n">> \o
       <<"w", "q", "c", "q", ":", "w", "q", "c", "q", ",", "w", "n">> \o
       <<"w", "q", "c", "q", ":", "w", "q", "c", "q", "n">> \o
       <<"w", "}", ",", "n">> \o
       <<"w", "q", "c", "q", ":", "w", "{", "n">> \o
       <<"w", "q", "c", "q", ":", "w", "q", "c", "q", ",", "n">> \o
       <<"w", "q", "c", "q", ":", "w", "q", "c", "q", "n">> \o
       <<"w", "}", "n">> \o
       <<"w", "}", ",", "n">> \o
       <<"w", "q", "c", "q", ":", "w", "c", ",", "n">> \o
       <<"w", "q", "c", "q", ":", "w", "c", "n">> \o
       <<"}">>

\* JSON (RFC 8259): control characters and bad escapes may not occur in a string.
StringNext(ch) ==
    CASE ch = "q" -> "value"
      [] ch = "n" -> "error"
      [] ch = "x" -> "error"
      [] OTHER -> "string"

\* Between strings: brackets nest, blanks are skipped, a backslash is an error.
ValueNext(ch, d) ==
    CASE ch = "q" -> "string"
      [] ch \in {"e", "x"} -> "error"
      [] ch \in {"}", "]"} /\ d = 0 -> "error"
      [] OTHER -> "value"

DepthNext(ch, d) ==
    CASE ch \in {"{", "["} -> d + 1
      [] ch \in {"}", "]"} /\ d > 0 -> d - 1
      [] OTHER -> d

\* At the end of the file every string and bracket must be closed.
AtEnd(l, d, p) ==
    IF p <= Len(NotebookFile) \/ l = "error" THEN l
    ELSE IF l = "value" /\ d = 0 THEN "done" ELSE "error"

ReadValue ==
    /\ mode = "load"
    /\ lex = "value"
    /\ pos <= Len(NotebookFile)
    /\ pos' = pos + 1
    /\ depth' = DepthNext(NotebookFile[pos], depth)
    /\ lex' = AtEnd(ValueNext(NotebookFile[pos], depth), depth', pos')
    /\ UNCHANGED <<mode, heap, frame, calls, kernelVars>>

ReadString ==
    /\ mode = "load"
    /\ lex = "string"
    /\ pos <= Len(NotebookFile)
    /\ pos' = pos + 1
    /\ depth' = depth
    /\ lex' = AtEnd(StringNext(NotebookFile[pos]), depth, pos')
    /\ UNCHANGED <<mode, heap, frame, calls, kernelVars>>

Reader == ReadValue \/ ReadString

(***************************************************************************)
(* Initial states.                                                         *)
(***************************************************************************)
ImportedPackages == {s.pkg : s \in {t \in Statements : t.op = "import"}}

InitKernel ==
    /\ pipOk = "never"
    /\ cell = "none"
    /\ pc = 1
    /\ outputs = [c \in CodeCells |-> <<>>]
    /\ status = [c \in CodeCells |-> "never"]
    /\ failedAt = 0
    /\ assigned = {}

InitReader == pos = 1 /\ lex = "value" /\ depth = 0

\* A caller builds one instance with any constructor arguments; ns holds the
\* shapes of the inputs it will pass: texts per batch, metadata rows and columns.
InitApi ==
    /\ mode = "api"
    /\ \E td \in TextDims, md \in MetadataDims, od \in OutputDims :
          heap = <<MultiModalEncoder(td, md, od, 1)>>
    /\ \E b \in Batches, r \in Batches, c \in MetadataDims :
          ns = [batch |-> b, rows |-> r, cols |-> c]
    /\ frame = NoFrame
    /\ calls = <<>>
    /\ installed = {}
    /\ InitKernel
    /\ InitReader

\* A fresh kernel; the environment may already hold some of the packages.
InitNotebook ==
    /\ mode = "notebook"
    /\ heap = <<>>
    /\ ns = [n \in Names |-> Null]
    /\ frame = NoFrame
    /\ calls = <<>>
    /\ installed \in SUBSET ImportedPackages
    /\ InitKernel
    /\ InitReader

\* The environment opens the file.
InitLoad ==
    /\ mode = "load"
    /\ heap = <<>>
    /\ ns = [n \in Names |-> Null]
    /\ frame = NoFrame
    /\ calls = <<>>
    /\ installed = {}
    /\ InitKernel
    /\ InitReader

Init == InitApi \/ InitNotebook \/ InitLoad

Next == Forward \/ ApiCall \/ ApiFinish \/ Kernel \/ Reader

Spec == Init /\ [][Next]_vars

(***************************************************************************)
(* Claims.                                                                 *)
(***************************************************************************)
Returned == {i \in 1..Len(calls) : ~calls[i].raised}

OutputDimOf(m) == m.text_projection.out_features

\* The call meets C1's conditions: the instance projects from BERT's hidden
\* size (the default text_dim) and the metadata tensor is (B, metadata_dim).
WellShaped(r) ==
    /\ r.params_before.text_projection.in_features = BertHiddenSize
    /\ r.args[2].shape = <<r.args[1].batch, r.params_before.metadata_encoder[1].in_features>>

ShapeLines == {143, 144, 145}

Exceptions == {"NameError", "ModuleNotFoundError", "OSError", "RuntimeError"}

BoundBefore(c, k) == UNION {Binds(Program(c)[j]) : j \in 1..(k - 1)}

\* C2 as stated: whenever a step of a code cell fails, the failure leaves the
\* cell as an exception and no later statement of the cell executes.
C2_AnyFailureStopsCell ==
    (mode = "notebook" /\ failedAt > 0) =>
        /\ status[cell] \in Exceptions
        /\ pc = failedAt

\* C2 (amended): when a statement raises (a missing package at import, a failed
\* from_pretrained, a layer of forward), the exception leaves the cell: the cell
\* stops at that statement, has printed and bound only what the statements
\* before it print and bind, and a forward call that raised has no result,
\* while one that returned has all three tensors.
C2_RaisePropagates ==
    /\ (mode = "notebook" /\ cell \in CodeCells /\ status[cell] \in Exceptions) =>
          /\ pc = failedAt
          /\ pc <= Len(Program(cell))
          /\ assigned \subseteq BoundBefore(cell, pc)
          /\ \A k \in 1..Len(outputs[cell]) : outputs[cell][k].line < Program(cell)[pc].line
          /\ frame.pc = "none"
    /\ \A i \in 1..Len(calls) :
          IF calls[i].raised
          THEN calls[i].result = Null
          ELSE \A k \in 1..3 : calls[i].result[k].kind = "tensor"
    /\ frame.pc = "raised" => frame.result = Null

C2_Witness ==
    /\ mode = "notebook"
    /\ cell = "encoder"
    /\ status["encoder"] = "OSError"
    /\ Program(cell)[pc].op = "construct"
    /\ "tokenizer" \in assigned
    /\ Len(outputs["encoder"]) = 2

\* C3: the notebook file is well-formed JSON (nbformat 4) whose cell sources are
\* lists of valid strings: a JSON reader never rejects it.
C3_NotebookLoads == lex # "error"

StubCells == {"adapting", "reasoning"}

StubLines(c) == IF c = "adapting" THEN <<217, 218>> ELSE <<237, 238>>

\* C4: a run of either stub cell changes no variable of the kernel and no
\* model instance, and when it ends it has printed exactly its two fixed lines.
C4_StubsAreInert ==
    [][(mode = "notebook" /\ cell \in StubCells /\ status[cell] = "running") =>
          /\ ns' = ns
          /\ heap' = heap
          /\ assigned' = {}
          /\ status'[cell] # "running" =>
                /\ status'[cell] = "ok"
                /\ outputs'[cell] = [k \in 1..2 |-> [line |-> StubLines(cell)[k],
                                                     shows |-> <<>>]]]_vars

C4_Witness ==
    /\ mode = "notebook"
    /\ cell = "adapting"
    /\ status["adapting"] = "ok"
    /\ status["encoder"] = "ok"
    /\ ns["model"] # Null
    /\ ns["fused_features"] # Null

CosineOf(a, b) == App("cosine_similarity", 1, <<a.data, b.data>>)

\* C5: in a run of the encoder cell the second call differs from the first in
\* the text only, the third in the metadata only, all on the same instance;
\* fused_features stays the first call's result and both similarities are
\* computed against it.
C5_ComparisonsVaryOneInput ==
    (mode = "notebook" /\ cell = "encoder") =>
        /\ \A i \in 1..Len(calls) : calls[i].self = calls[1].self
        /\ Len(calls) >= 1 =>
              ns["fused_features"] = calls[1].result[1]
        /\ Len(calls) >= 2 =>
              /\ calls[2].args[1] # calls[1].args[1]
              /\ calls[2].args[2] = calls[1].args[2]
        /\ Len(calls) >= 3 =>
              /\ calls[3].args[1] = calls[1].args[1]
              /\ calls[3].args[2] # calls[1].args[2]
        /\ "similarity" \in assigned =>
              ns["similarity"].data = CosineOf(calls[1].result[1], calls[2].result[1])
        /\ "similarity2" \in assigned =>
              ns["similarity2"].data = CosineOf(calls[1].result[1], calls[3].result[1])

C5_Witness ==
    /\ mode = "notebook"
    /\ status["encoder"] = "ok"
    /\ cell = "encoder"
    /\ Len(calls) = 3
    /\ "similarity2" \in assigned

\* The order C6 claims.
ClaimedOrder ==
    <<"text_encoder", "text_projection", "metadata_encoder", "cat", "fusion">>

IsPrefix(s, t) == Len(s) <= Len(t) /\ \A k \in 1..Len(s) : s[k] = t[k]

\* C6 as stated: every call of forward runs the five steps, in order, once each.
C6_EveryCallRunsAllSteps ==
    \A i \in 1..Len(calls) : calls[i].trace = ClaimedOrder

\* C6 (amended): every call of forward that returns has run the text encoder,
\* the text projection, the metadata encoder, the concatenation (text features
\* first, metadata features second, along dimension 1) and the fusion layer, in
\* this order, once each, the fusion layer's input being that concatenation; a
\* call that raises has run a proper prefix of that sequence.
C6_StraightLine ==
    /\ frame.pc # "none" => IsPrefix(frame.trace, ClaimedOrder)
    /\ \A i \in 1..Len(calls) :
          LET r == calls[i] IN
          IF r.raised
          THEN IsPrefix(r.trace, ClaimedOrder) /\ Len(r.trace) < Len(ClaimedOrder)
          ELSE /\ r.trace = ClaimedOrder
               /\ r.fusion_input.data = App("cat", 1, <<r.result[2].data, r.result[3].data>>)
               /\ r.fusion_input.shape =
                     <<r.result[2].shape[1], r.result[2].shape[2] + r.result[3].shape[2]>>
               /\ r.result[1] = SequentialApply(r.params_before.fusion, r.fusion_input)

C6_Witness ==
    /\ mode = "api"
    /\ \E i \in Returned : calls[i].args[1].batch > 1 /\ calls[i].trace = ClaimedOrder

Floored(pkg) == \E r \in Manifest : r.name = pkg /\ r.op = ">="

\* C8: every package a cell imports is installed by the install cell and has a
\* version floor in the manifest; once the install cell's pip has succeeded, no
\* import of the encoder cell fails.
C8_ImportsAreProvided ==
    /\ \A pkg \in ImportedPackages : pkg \in PipPackages /\ Floored(pkg)
    /\ pipOk = "ok" => ImportedPackages \subseteq installed
    /\ (pipOk = "ok" /\ cell = "encoder") => status["encoder"] # "ModuleNotFoundError"

C8_Witness ==
    /\ pipOk = "ok"
    /\ cell = "encoder"
    /\ {"torch", "nn", "BertTokenizer", "BertModel", "np"} \subseteq assigned

\* C9: forward changes neither the instance's parameters nor its arguments, and
\* two calls on the same instance with equal arguments return equal results,
\* whatever calls come between them.
C9_ForwardIsPure ==
    /\ \A i \in 1..Len(calls) :
          /\ calls[i].params_after = calls[i].params_before
          /\ calls[i].args_after = calls[i].args
    /\ \A i, j \in 1..Len(calls) :
          (calls[i].self = calls[j].self /\ calls[i].args = calls[j].args) =>
             /\ calls[i].raised = calls[j].raised
             /\ calls[i].result = calls[j].result

C9_Witness ==
    /\ Len(calls) = 3
    /\ Returned = {1, 2, 3}
    /\ calls[1].args = calls[3].args
    /\ calls[2].args # calls[1].args

====
